---- MODULE Spec2Model ----
(***************************************************************************)
(* A model of md-cleaner: the escape reversal engine                       *)
(* (MarkdownCleaner.clean_escaped_markdown, present in markdown_cleaner.py *)
(* and again in clean_markdown.py), the batch walker (clean_file,          *)
(* clean_directory) and the command-line entry point (main).               *)
(*                                                                         *)
(* A text is a sequence of one-character strings.  Every regular           *)
(* expression of the source is modelled by what Python's re module does    *)
(* with it: a match operator that, for a start position, gives the end of  *)
(* the match and the expanded replacement template, and re.sub's           *)
(* leftmost, non-overlapping scan over the text.                           *)
(***************************************************************************)
EXTENDS Integers, Sequences, FiniteSets, TLC

VARIABLES
    content,          \* the text handed to the first call of the engine
    last_input,       \* the argument of the latest library call
    cleaned_content,  \* text returned by the latest library call
    changes_made,     \* change count returned by the latest library call
    rules_applied,    \* whether the latest library call reached the rule loop
    calls,            \* number of library calls made so far
    cli_cleaned,      \* text returned by the CLI copy of the engine on content
    cli_changes,      \* change count returned by the CLI copy
    cli_called,       \* whether the CLI copy has been called
    entry,            \* "main": the command line; "api": clean_directory called directly
    argv,             \* what the command line holds: "ok", "usage_error" or "help"
    path_kind,        \* what the path argument names
    dir_files,        \* the .md files below the path when it is a directory
    disk,             \* the content of every file on disk
    disk_before,      \* the content of every file when the run started
    dry_run,          \* self.dry_run
    files_processed,  \* self.files_processed
    files_cleaned,    \* self.files_cleaned
    total_changes,    \* self.total_changes
    pc,               \* where the run stands
    md_files,         \* clean_directory's md_files
    idx,              \* position of the for loop in md_files
    success_count,    \* clean_directory's success_count
    call_log,         \* the files clean_file was called on, in order
    write_log,        \* the files write_file was called on, in order
    io_failed,        \* the files whose read or write failed
    result,           \* what clean_directory returned: "none", "True", "False"
    exit_status,      \* the status main exited with, -1 while it has not
    interrupted,      \* whether a KeyboardInterrupt was raised
    runs,             \* number of clean_directory calls on the instance
    file_calls        \* number of clean_file calls on the instance

engineVars == <<content, last_input, cleaned_content, changes_made,
                rules_applied, calls, cli_cleaned, cli_changes, cli_called>>

batchVars == <<entry, argv, path_kind, dir_files, disk, disk_before, dry_run,
               files_processed, files_cleaned, total_changes, pc, md_files,
               idx, success_count, call_log, write_log, io_failed, result,
               exit_status, interrupted, runs, file_calls>>

vars == <<engineVars, batchVars>>

(***************************************************************************)
(* Characters and the character classes of Python's re.                    *)
(***************************************************************************)
BS == "\\"
NL == "\n"
TAB == "\t"
SP == " "
\* the backtick (grave accent), which a TLA+ string cannot hold
BT == "bt"

\* \s restricted to the whitespace the model's alphabets contain
SpaceChars == {SP, TAB, NL}

\* \d
DigitChars == {"0", "1", "2", "3", "4", "5", "6", "7", "8", "9"}

\* the character at 1-based position i, or "" outside the text
At(s, i) == IF i >= 1 /\ i <= Len(s) THEN s[i] ELSE ""

\* the length of the longest run of characters of class C starting at i
RECURSIVE RunLen(_, _, _)
RunLen(s, i, C) ==
    IF i <= Len(s) /\ s[i] \in C THEN 1 + RunLen(s, i + 1, C) ELSE 0

Min(a, b) == IF a < b THEN a ELSE b

\* ^ under re.MULTILINE: start of the text or just after a newline
AtLineStart(s, i) == i = 1 \/ At(s, i - 1) = NL

\* $ under re.MULTILINE: end of the text or just before a newline
AtLineEndMultiline(s, i) == i = Len(s) + 1 \/ At(s, i) = NL

\* $ without flags: end of the text or just before a newline that ends the text
AtEndNoFlags(s, i) == i = Len(s) + 1 \/ (i = Len(s) /\ s[i] = NL)

\* (?<!\\) at position i
NotAfterBackslash(s, i) == At(s, i - 1) # BS

NoMatch == [end |-> 0, rep |-> <<>>]

(***************************************************************************)
(* The rewrite rules: patterns[k] = (pattern, replacement).  Each operator *)
(* gives the match of one pattern that starts at position i, as the        *)
(* position after the match and the expanded replacement, or NoMatch.      *)
(***************************************************************************)

\* a header rule that also swallows the whitespace after the hashes and
\* puts one space in its place: (r'\\(#{1,6})\s*', r'\1 ')
HeaderRuleNormalizing(s, i) ==
    LET n == Min(RunLen(s, i + 1, {"#"}), 6)
        w == RunLen(s, i + 1 + n, SpaceChars)
    IN  IF At(s, i) = BS /\ n >= 1
        THEN [end |-> i + 1 + n + w, rep |-> SubSeq(s, i + 1, i + n) \o <<SP>>]
        ELSE NoMatch

\* (r'\\(#{1,6})', r'\1'): a backslash and a greedy run of 1 to 6 hashes
HeaderRule(s, i) ==
    LET n == Min(RunLen(s, i + 1, {"#"}), 6)
    IN  IF At(s, i) = BS /\ n >= 1
        THEN [end |-> i + 1 + n, rep |-> SubSeq(s, i + 1, i + n)]
        ELSE NoMatch

\* \\([-*+])\s with the backslash at position j
ListBody(s, j) ==
    At(s, j) = BS /\ At(s, j + 1) \in {"-", "*", "+"} /\ At(s, j + 2) \in SpaceChars

\* (r'(^|\s)\\([-*+])\s', r'\1\2 '): the alternative ^ is tried first
ListRule(s, i) ==
    IF AtLineStart(s, i) /\ ListBody(s, i)
    THEN [end |-> i + 3, rep |-> <<s[i + 1], SP>>]
    ELSE IF At(s, i) \in SpaceChars /\ ListBody(s, i + 1)
    THEN [end |-> i + 4, rep |-> <<s[i], s[i + 2], SP>>]
    ELSE NoMatch

\* \\(\d+)\. with the backslash at position j: the number of digits matched,
\* or 0 when there is no match (\d+ is greedy and only the whole run of
\* digits can be followed by a period)
NumberedBody(s, j) ==
    LET n == RunLen(s, j + 1, DigitChars)
    IN  IF At(s, j) = BS /\ n >= 1 /\ At(s, j + 1 + n) = "." THEN n ELSE 0

\* (r'(^|\s)\\(\d+)\.', r'\1\2.')
NumberedLineRule(s, i) ==
    IF AtLineStart(s, i) /\ NumberedBody(s, i) > 0
    THEN LET n == NumberedBody(s, i)
         IN  [end |-> i + n + 2, rep |-> SubSeq(s, i + 1, i + n) \o <<".">>]
    ELSE IF At(s, i) \in SpaceChars /\ NumberedBody(s, i + 1) > 0
    THEN LET n == NumberedBody(s, i + 1)
         IN  [end |-> i + n + 3,
              rep |-> <<s[i]>> \o SubSeq(s, i + 2, i + 1 + n) \o <<".">>]
    ELSE NoMatch

\* (r'\\(\d+)\.', r'\1.')
NumberedRule(s, i) ==
    LET n == NumberedBody(s, i)
    IN  IF n > 0
        THEN [end |-> i + n + 2, rep |-> SubSeq(s, i + 1, i + n) \o <<".">>]
        ELSE NoMatch

\* a backslash at i followed by one character of class C, replaced by that
\* character: the shape r'\\(C)' -> r'\1'
EscapedChar(s, i, C) ==
    IF At(s, i) = BS /\ At(s, i + 1) \in C
    THEN [end |-> i + 2, rep |-> <<s[i + 1]>>]
    ELSE NoMatch

\* the same behind (?<!\\): the shape r'(?<!\\)\\(C)' -> r'\1'
GuardedEscapedChar(s, i, C) ==
    IF NotAfterBackslash(s, i) THEN EscapedChar(s, i, C) ELSE NoMatch

\* (r'\\(\+)', r'\1')
PlusRule(s, i) == EscapedChar(s, i, {"+"})

\* (r'\\(_)', r'\1')
UnderscoreRule(s, i) == EscapedChar(s, i, {"_"})

\* (r'(?<!\\)\\([*_])', r'\1')
EmphasisRule(s, i) == GuardedEscapedChar(s, i, {"*", "_"})

\* (r'(?<!\\)\\(BT)', r'\1'), BT standing for the backtick
InlineCodeRule(s, i) == GuardedEscapedChar(s, i, {BT})

\* (r'(?<!\\)\\([\[\]])', r'\1')
BracketRule(s, i) == GuardedEscapedChar(s, i, {"[", "]"})

\* (r'(?<!\\)\\([()])', r'\1')
ParenRule(s, i) == GuardedEscapedChar(s, i, {"(", ")"})

\* (r'(?<!\\)\\([-*]{3,})', r'\1'): a greedy run of at least three - or *
HorizontalRule(s, i) ==
    LET n == RunLen(s, i + 1, {"-", "*"})
    IN  IF NotAfterBackslash(s, i) /\ At(s, i) = BS /\ n >= 3
        THEN [end |-> i + 1 + n, rep |-> SubSeq(s, i + 1, i + n)]
        ELSE NoMatch

\* \\(>)\s with the backslash at position j
BlockquoteBody(s, j) ==
    At(s, j) = BS /\ At(s, j + 1) = ">" /\ At(s, j + 2) \in SpaceChars

\* (r'(^|\s)\\(>)\s', r'\1\2 ')
BlockquoteRule(s, i) ==
    IF AtLineStart(s, i) /\ BlockquoteBody(s, i)
    THEN [end |-> i + 3, rep |-> <<">", SP>>]
    ELSE IF At(s, i) \in SpaceChars /\ BlockquoteBody(s, i + 1)
    THEN [end |-> i + 4, rep |-> <<s[i], ">", SP>>]
    ELSE NoMatch

\* the positions at which \s* may stop after a backslash at i, when the run
\* of whitespace after it has n characters
TrailingStops(i, n) == {i + 1 + j : j \in 0..n}

Max(S) == CHOOSE x \in S : \A y \in S : y <= x

\* (r'\\\s*$', r'') under re.MULTILINE: \s* is greedy and backtracks to the
\* longest run of whitespace that ends where $ matches
TrailingRule(s, i) ==
    LET n == RunLen(s, i + 1, SpaceChars)
        stops == {p \in TrailingStops(i, n) : AtLineEndMultiline(s, p)}
    IN  IF At(s, i) = BS /\ stops # {}
        THEN [end |-> Max(stops), rep |-> <<>>]
        ELSE NoMatch

\* a period rule tied to the start of a line or to whitespace, like the list
\* rules: (r'(^|\s)\\(\.)', r'\1\2')
PeriodRuleAtLineStart(s, i) ==
    IF AtLineStart(s, i) /\ At(s, i) = BS /\ At(s, i + 1) = "."
    THEN [end |-> i + 2, rep |-> <<".">>]
    ELSE IF At(s, i) \in SpaceChars /\ At(s, i + 1) = BS /\ At(s, i + 2) = "."
    THEN [end |-> i + 3, rep |-> <<s[i], ".">>]
    ELSE NoMatch

\* (r'(?<!\\)\\(\.)', r'\1')
PeriodRule(s, i) == GuardedEscapedChar(s, i, {"."})

\* the match of the named rule that starts at position i
Match(rule, s, i) ==
    CASE rule = "header"        -> HeaderRule(s, i)
      [] rule = "list"          -> ListRule(s, i)
      [] rule = "numbered_line" -> NumberedLineRule(s, i)
      [] rule = "numbered"      -> NumberedRule(s, i)
      [] rule = "plus"          -> PlusRule(s, i)
      [] rule = "underscore"    -> UnderscoreRule(s, i)
      [] rule = "emphasis"      -> EmphasisRule(s, i)
      [] rule = "inline_code"   -> InlineCodeRule(s, i)
      [] rule = "bracket"       -> BracketRule(s, i)
      [] rule = "paren"         -> ParenRule(s, i)
      [] rule = "hr"            -> HorizontalRule(s, i)
      [] rule = "blockquote"    -> BlockquoteRule(s, i)
      [] rule = "trailing"      -> TrailingRule(s, i)
      [] rule = "period"        -> PeriodRule(s, i)

\* re.sub(pattern, replacement, s, flags=re.MULTILINE): the text is scanned
\* from the left; a match is replaced and the scan resumes after it, a
\* position without a match keeps its character.  No pattern matches the
\* empty string (each holds a literal backslash).
RECURSIVE SubFrom(_, _, _)
SubFrom(rule, s, i) ==
    IF i > Len(s) THEN <<>>
    ELSE LET m == Match(rule, s, i)
         IN  IF m.end > 0
             THEN m.rep \o SubFrom(rule, s, m.end)
             ELSE <<s[i]>> \o SubFrom(rule, s, i + 1)

re_sub(rule, s) == SubFrom(rule, s, 1)

(***************************************************************************)
(* The classifier: escaped_indicators, each probed with re.search, which   *)
(* is called without flags (so $ is not the multi-line $ of the rules).    *)
(***************************************************************************)

\* two escaped markers \c ... \d on one line (. does not match a newline):
\* the shapes r'\\\*.*\\\*' and r'\\\[.*\\\]'
EscapedPair(s, open, close) ==
    \E i \in 1..Len(s) : \E j \in (i + 2)..Len(s) :
        /\ At(s, i) = BS /\ At(s, i + 1) = open
        /\ At(s, j) = BS /\ At(s, j + 1) = close
        /\ \A k \in (i + 2)..(j - 1) : s[k] # NL

\* re.search(indicator, s) for the named indicator
Search(indicator, s) ==
    CASE indicator = "header"     ->                          \* r'\\#'
            \E i \in 1..Len(s) : At(s, i) = BS /\ At(s, i + 1) = "#"
      [] indicator = "list"       ->                          \* r'\\-\s'
            \E i \in 1..Len(s) :
                At(s, i) = BS /\ At(s, i + 1) = "-" /\ At(s, i + 2) \in SpaceChars
      [] indicator = "emphasis"   ->                          \* r'\\\*.*\\\*'
            EscapedPair(s, "*", "*")
      [] indicator = "numbered"   ->                          \* r'\\\d+\.'
            \E i \in 1..Len(s) : NumberedBody(s, i) > 0
      [] indicator = "blockquote" ->                          \* r'\\>'
            \E i \in 1..Len(s) : At(s, i) = BS /\ At(s, i + 1) = ">"
      [] indicator = "link"       ->                          \* r'\\\[.*\\\]'
            EscapedPair(s, "[", "]")
      [] indicator = "plus"       ->                          \* r'\\\+'
            \E i \in 1..Len(s) : At(s, i) = BS /\ At(s, i + 1) = "+"
      [] indicator = "underscore" ->                          \* r'\\\_'
            \E i \in 1..Len(s) : At(s, i) = BS /\ At(s, i + 1) = "_"
      [] indicator = "trailing"   ->                          \* r'\\\s*$'
            \E i \in 1..Len(s) :
                /\ At(s, i) = BS
                /\ \E p \in TrailingStops(i, RunLen(s, i + 1, SpaceChars)) :
                       AtEndNoFlags(s, p)

(***************************************************************************)
(* The engine: MarkdownCleaner.clean_escaped_markdown.                     *)
(***************************************************************************)

\* escaped_indicators of markdown_cleaner.py, in order
escaped_indicators ==
    <<"header", "list", "emphasis", "numbered", "blockquote", "link",
      "plus", "underscore", "trailing">>

\* patterns of markdown_cleaner.py, in order
patterns ==
    <<"header", "list", "numbered_line", "numbered", "plus", "underscore",
      "emphasis", "inline_code", "bracket", "paren", "hr", "blockquote",
      "trailing", "period">>

\* escape_count: the number of indicators re.search finds in the text
EscapeCount(indicators, s) ==
    Cardinality({k \in 1..Len(indicators) : Search(indicators[k], s)})

\* the loop counting the characters removed instead of the rules that
\* changed the text: changes_made += len(content) - len(cleaned_content)
RECURSIVE ApplyPatternsCountingCharacters(_, _, _, _)
ApplyPatternsCountingCharacters(pats, k, text, changes) ==
    IF k > Len(pats)
    THEN [text |-> text, changes |-> changes, applied |-> TRUE]
    ELSE LET after == re_sub(pats[k], text)
         IN  ApplyPatternsCountingCharacters(pats, k + 1, after,
                                             changes + Len(text) - Len(after))

\* the loop over the rule table, from rule k on: each rule is applied to
\* the whole text, and counts as a change when the length differs
RECURSIVE ApplyPatterns(_, _, _, _)
ApplyPatterns(pats, k, text, changes) ==
    IF k > Len(pats)
    THEN [text |-> text, changes |-> changes, applied |-> TRUE]
    ELSE LET after == re_sub(pats[k], text)
         IN  ApplyPatterns(pats, k + 1, after,
                           IF Len(after) # Len(text) THEN changes + 1 ELSE changes)

\* an engine without the early return on escape_count == 0
clean_without_classifier(text) ==
    IF text = <<>>
    THEN [text |-> text, changes |-> 0, applied |-> FALSE]
    ELSE ApplyPatterns(patterns, 1, text, 0)

\* clean_escaped_markdown of markdown_cleaner.py (the library): the text and
\* the change count it returns, and whether the rule loop was reached
clean_escaped_markdown(text) ==
    IF text = <<>>
    THEN [text |-> text, changes |-> 0, applied |-> FALSE]
    ELSE IF EscapeCount(escaped_indicators, text) = 0
    THEN [text |-> text, changes |-> 0, applied |-> FALSE]
    ELSE ApplyPatterns(patterns, 1, text, 0)

\* escaped_indicators of clean_markdown.py (the CLI's own copy), in order
cli_escaped_indicators ==
    <<"header", "list", "emphasis", "numbered", "blockquote", "link",
      "plus", "underscore", "trailing">>

\* a rule table with the emphasis rule ahead of the underscore rule
cli_patterns_reordered ==
    <<"header", "list", "numbered_line", "numbered", "plus", "emphasis",
      "underscore", "inline_code", "bracket", "paren", "hr", "blockquote",
      "trailing", "period">>

\* patterns of clean_markdown.py (the CLI's own copy), in order
cli_patterns ==
    <<"header", "list", "numbered_line", "numbered", "plus", "underscore",
      "emphasis", "inline_code", "bracket", "paren", "hr", "blockquote",
      "trailing", "period">>

\* clean_escaped_markdown of clean_markdown.py
cli_clean_escaped_markdown(text) ==
    IF text = <<>>
    THEN [text |-> text, changes |-> 0, applied |-> FALSE]
    ELSE IF EscapeCount(cli_escaped_indicators, text) = 0
    THEN [text |-> text, changes |-> 0, applied |-> FALSE]
    ELSE ApplyPatterns(cli_patterns, 1, text, 0)

(***************************************************************************)
(* The engine as a state machine: a text is cleaned, and the text that     *)
(* came back may be cleaned again (a second run over the same file, or the *)
(* result pasted back into the form's source pane).                        *)
(***************************************************************************)

\* longest text drawn from the alphabets
MaxLen == 4

\* library calls made on one text
MaxCalls == 2

\* lines of an escaped list
MaxLines == 2

\* spaces between the header marks and the title
MaxSpaces == 2

\* markers of a nested quote
MaxDepth == 2

\* headers, list markers, horizontal rules, trailing backslashes
BlockAlphabet == {BS, "#", "-", SP, "a"}

\* emphasis, underscores, plus signs, lines
SpanAlphabet == {BS, "*", "_", "+", NL}

\* ordinal list markers and periods
OrdinalAlphabet == {BS, "1", ".", SP}

\* links
LinkAlphabet == {BS, "[", "]", "("}

\* blockquotes and code spans
QuoteAlphabet == {BS, ">", BT, TAB}

\* periods and other punctuation
PunctAlphabet == {BS, ".", ",", "!"}

Alphabets ==
    {BlockAlphabet, SpanAlphabet, OrdinalAlphabet, LinkAlphabet, QuoteAlphabet,
     PunctAlphabet}

Range(s) == {s[k] : k \in 1..Len(s)}

\* all texts of at most n characters over alphabet A
TextsOver(A, n) == UNION {[1..k -> A] : k \in 0..n}

\* s repeated n times
RECURSIVE Repeat(_, _)
Repeat(s, n) == IF n = 0 THEN <<>> ELSE s \o Repeat(s, n - 1)

\* the texts of a list of lines, joined by newlines
RECURSIVE JoinLines(_)
JoinLines(ls) ==
    IF Len(ls) = 0 THEN <<>>
    ELSE IF Len(ls) = 1 THEN ls[1]
    ELSE ls[1] \o <<NL>> \o JoinLines(Tail(ls))

ItemTexts == {<<"a">>, <<"b", SP, "c">>}

\* escaped list lines: backslash, marker, space, item text
ListLines == {<<BS, m, SP>> \o it : m \in {"-", "*", "+"}, it \in ItemTexts}

ListTexts == {JoinLines(ls) : ls \in UNION {[1..k -> ListLines] : k \in 1..MaxLines}}

TitleTexts == {<<"a">>, <<"T", SP, "b">>, <<"a", ".">>}

\* escaped headers: backslash, 1 to 6 hashes, spaces, title
HeaderTexts ==
    {<<BS>> \o Repeat(<<"#">>, k) \o Repeat(<<SP>>, m) \o ti :
        k \in 1..6, m \in 1..MaxSpaces, ti \in TitleTexts}

\* escaped quotes nested 1 to MaxDepth deep: each marker is backslash, '>',
\* space
QuoteTexts == {Repeat(<<BS, ">", SP>>, n) \o <<"a">> : n \in 1..MaxDepth}

Texts ==
    UNION {TextsOver(A, MaxLen) : A \in Alphabets}
        \cup ListTexts \cup HeaderTexts \cup QuoteTexts

EngineStart ==
    /\ last_input = <<>>
    /\ cleaned_content = <<>>
    /\ changes_made = 0
    /\ rules_applied = FALSE
    /\ calls = 0
    /\ cli_cleaned = <<>>
    /\ cli_changes = 0
    /\ cli_called = FALSE

\* files that can exist, numbered in the sorted order of their paths
MaxFiles == 2

Files == 1..MaxFiles

\* the batch walker before any run
BatchIdle ==
    /\ entry = "none"
    /\ argv = "ok"
    /\ path_kind = "missing"
    /\ dir_files = {}
    /\ disk = [f \in Files |-> <<>>]
    /\ disk_before = disk
    /\ dry_run = FALSE
    /\ files_processed = 0
    /\ files_cleaned = 0
    /\ total_changes = 0
    /\ pc = "idle"
    /\ md_files = <<>>
    /\ idx = 1
    /\ success_count = 0
    /\ call_log = <<>>
    /\ write_log = <<>>
    /\ io_failed = {}
    /\ result = "none"
    /\ exit_status = -1
    /\ interrupted = FALSE
    /\ runs = 0
    /\ file_calls = 0

Init ==
    /\ content \in Texts
    /\ EngineStart
    /\ BatchIdle
\* a call of the library's clean_escaped_markdown: on the text, then on
\* what the previous call returned
CleanCall ==
    /\ calls < MaxCalls
    /\ LET arg == IF calls = 0 THEN content ELSE cleaned_content
           r == clean_escaped_markdown(arg)
       IN  /\ last_input' = arg
           /\ cleaned_content' = r.text
           /\ changes_made' = r.changes
           /\ rules_applied' = r.applied
    /\ calls' = calls + 1
    /\ UNCHANGED <<content, cli_cleaned, cli_changes, cli_called>>
    /\ UNCHANGED batchVars

\* a call of the CLI's clean_escaped_markdown on the text
CliCleanCall ==
    /\ ~cli_called
    /\ LET r == cli_clean_escaped_markdown(content)
       IN  /\ cli_cleaned' = r.text
           /\ cli_changes' = r.changes
    /\ cli_called' = TRUE
    /\ UNCHANGED <<content, last_input, cleaned_content, changes_made,
                   rules_applied, calls>>
    /\ UNCHANGED batchVars

Next == CleanCall \/ CliCleanCall

Spec == Init /\ [][Next]_vars

(***************************************************************************)
(* The batch walker (find_markdown_files, clean_file, clean_directory) and *)
(* the command line (main of clean_markdown.py).  The class is the same in *)
(* both files; main drives the copy of clean_markdown.py, a direct call of *)
(* clean_directory drives the library's.                                   *)
(***************************************************************************)

\* what a file may hold: clean text, an escaped header, a text two rules
\* rewrite, nothing
FileTexts == {<<"a">>, <<BS, "#", "a">>, <<BS, "[", BS>>, <<>>}

PathKinds == {"missing", "md_file", "other_file", "directory"}

\* the elements of a set of files as a sequence in ascending order
RECURSIVE Sorted(_)
Sorted(S) ==
    IF S = {} THEN <<>>
    ELSE LET m == CHOOSE x \in S : \A y \in S : x <= y
         IN  <<m>> \o Sorted(S \ {m})

\* find_markdown_files: a .md file gives itself (file 1 stands for the path),
\* another file or a path that is neither file nor directory gives nothing,
\* a directory gives the .md files below it, sorted
find_markdown_files(kind, below) ==
    CASE kind = "md_file"    -> <<1>>
      [] kind = "other_file" -> <<>>
      [] kind = "missing"    -> <<>>
      [] kind = "directory"  -> Sorted(below)

\* the engine the run uses
Engine(text) ==
    IF entry = "main" THEN cli_clean_escaped_markdown(text)
    ELSE clean_escaped_markdown(text)

\* the instance after __init__, before the first run: any command line or
\* direct call, any path, any content of the files
BatchStart ==
    /\ entry \in {"main", "api"}
    /\ argv \in (IF entry = "main" THEN {"ok", "usage_error", "help"} ELSE {"ok"})
    /\ path_kind \in PathKinds
    /\ dir_files \in (IF path_kind = "directory" THEN SUBSET Files ELSE {{}})
    /\ disk \in [Files -> FileTexts]
    /\ disk_before = disk
    /\ dry_run \in BOOLEAN
    /\ files_processed = 0
    /\ files_cleaned = 0
    /\ total_changes = 0
    /\ pc = IF entry = "main" THEN "parse" ELSE "find"
    /\ md_files = <<>>
    /\ idx = 1
    /\ success_count = 0
    /\ call_log = <<>>
    /\ write_log = <<>>
    /\ io_failed = {}
    /\ result = "none"
    /\ exit_status = -1
    /\ interrupted = FALSE
    /\ runs = 0
    /\ file_calls = 0

BatchInit ==
    /\ content = <<>>
    /\ EngineStart
    /\ BatchStart

environment == <<entry, argv, path_kind, dir_files, disk_before, dry_run>>

\* main: parser.parse_args().  argparse exits with status 2 on a usage
\* error (no path, an unknown option) and with status 0 after --help.
ParseArgs ==
    /\ pc = "parse"
    /\ IF argv = "ok"
       THEN pc' = "validate" /\ exit_status' = exit_status
       ELSE pc' = "exited" /\ exit_status' = (IF argv = "help" THEN 0 ELSE 2)
    /\ UNCHANGED <<engineVars, environment, disk, files_processed, files_cleaned,
                   total_changes, md_files, idx, success_count, call_log,
                   write_log, io_failed, result, interrupted, runs,
                   file_calls>>

\* main: the path is validated, and the cleaner is constructed
ValidatePath ==
    /\ pc = "validate"
    /\ IF path_kind = "missing"
       THEN pc' = "exited" /\ exit_status' = 1
       ELSE pc' = "find" /\ exit_status' = exit_status
    /\ UNCHANGED <<engineVars, environment, disk, files_processed, files_cleaned,
                   total_changes, md_files, idx, success_count, call_log,
                   write_log, io_failed, result, interrupted, runs,
                   file_calls>>

\* clean_directory up to its loop: without files it returns False
FindFiles ==
    /\ pc = "find"
    /\ md_files' = find_markdown_files(path_kind, dir_files)
    /\ IF md_files' = <<>>
       THEN pc' = "returned" /\ result' = "False"
       ELSE pc' = "loop" /\ result' = result
    /\ success_count' = 0
    /\ idx' = 1
    /\ runs' = runs + 1
    /\ UNCHANGED <<engineVars, environment, disk, files_processed, files_cleaned,
                   total_changes, call_log, write_log, io_failed, exit_status,
                   interrupted, file_calls>>

\* clean_file writes when the engine changed something and this is no dry run
ShouldWriteAlways(changes, dry) == changes > 0

ShouldWrite(changes, dry) == changes > 0 /\ ~dry

\* a loop that gives up at the first file that fails
IndexAfterAbortOnFailure(i, ok, n) == IF ok THEN i + 1 ELSE n + 1

\* the for loop of clean_directory goes on to the next file whatever
\* clean_file returned
IndexAfter(i, ok, n) == i + 1

\* a file counted as cleaned whatever the engine returned
CleanedAlways(changes) == TRUE

\* clean_file counts a file as cleaned, and adds its change count to the
\* total, when changes_made > 0
Cleaned(changes) == changes > 0

\* one turn of clean_directory's loop: clean_file on md_files[idx], whose
\* read and write may each fail
CleanFileStep ==
    /\ pc = "loop"
    /\ idx <= Len(md_files)
    /\ \E read_ok \in BOOLEAN, write_ok \in BOOLEAN :
        LET f == md_files[idx]
            r == Engine(disk[f])
            writes == ShouldWrite(r.changes, dry_run)
            ok == read_ok /\ (writes => write_ok)
        IN  /\ call_log' = Append(call_log, f)
            /\ file_calls' = file_calls + 1
            /\ IF ~read_ok
               THEN /\ io_failed' = io_failed \cup {f}
                    /\ UNCHANGED <<files_processed, files_cleaned, total_changes,
                                   write_log, disk>>
               ELSE /\ files_processed' = files_processed + 1
                    /\ files_cleaned' =
                           IF Cleaned(r.changes) THEN files_cleaned + 1
                           ELSE files_cleaned
                    /\ total_changes' =
                           IF Cleaned(r.changes) THEN total_changes + r.changes
                           ELSE total_changes
                    /\ write_log' = IF writes THEN Append(write_log, f) ELSE write_log
                    /\ disk' = IF writes /\ write_ok
                               THEN [disk EXCEPT ![f] = r.text] ELSE disk
                    /\ io_failed' = IF writes /\ ~write_ok
                                    THEN io_failed \cup {f} ELSE io_failed
            /\ success_count' = IF ok THEN success_count + 1 ELSE success_count
            /\ idx' = IndexAfter(idx, ok, Len(md_files))
    /\ UNCHANGED <<engineVars, environment, pc, md_files, result, exit_status,
                   interrupted, runs>>

\* any file went through
ReturnValueAnySuccess(count, n) == IF count > 0 THEN "True" ELSE "False"

\* return success_count == len(md_files)
ReturnValue(count, n) == IF count = n THEN "True" ELSE "False"

\* clean_directory after its loop: the summary and the return value
Summary ==
    /\ pc = "loop"
    /\ idx > Len(md_files)
    /\ result' = ReturnValue(success_count, Len(md_files))
    /\ pc' = "returned"
    /\ UNCHANGED <<engineVars, environment, disk, files_processed, files_cleaned,
                   total_changes, md_files, idx, success_count, call_log,
                   write_log, io_failed, exit_status, interrupted, runs,
                   file_calls>>

\* an exit status that ignores what clean_directory returned
ExitCodeAlwaysZero(success) == 0

\* 0 if success else 1
ExitCode(success) == IF success = "True" THEN 0 ELSE 1

\* main: sys.exit(0 if success else 1)
Exit ==
    /\ pc = "returned"
    /\ entry = "main"
    /\ exit_status' = ExitCode(result)
    /\ pc' = "exited"
    /\ UNCHANGED <<engineVars, environment, disk, files_processed, files_cleaned,
                   total_changes, md_files, idx, success_count, call_log,
                   write_log, io_failed, result, interrupted, runs,
                   file_calls>>

\* where main is inside its try block
InTry == pc \in {"find", "loop", "returned"}

\* the user interrupts: main catches KeyboardInterrupt inside its try block
\* and exits with status 1; before the try block, and in a direct call of
\* clean_directory, nothing catches it
Interrupt ==
    /\ \/ entry = "main" /\ pc \in {"parse", "validate", "find", "loop", "returned"}
       \/ entry = "api" /\ pc \in {"find", "loop"}
    /\ interrupted' = TRUE
    /\ IF entry = "main" /\ InTry
       THEN pc' = "exited" /\ exit_status' = 1
       ELSE pc' = "uncaught" /\ exit_status' = exit_status
    /\ UNCHANGED <<engineVars, environment, disk, files_processed, files_cleaned,
                   total_changes, md_files, idx, success_count, call_log,
                   write_log, io_failed, result, runs, file_calls>>

\* the steps of the program itself
Run == ParseArgs \/ ValidatePath \/ FindFiles \/ CleanFileStep \/ Summary \/ Exit

BatchNext == Run \/ Interrupt

BatchSpec == BatchInit /\ [][BatchNext]_vars

\* the program is one synchronous thread: while a step is possible, one is
\* taken
FairBatchSpec == BatchSpec /\ WF_vars(Run)

(***************************************************************************)
(* One cleaner instance used through its methods: clean_directory called   *)
(* several times, and clean_escaped_markdown called directly as the        *)
(* desktop form does.                                                      *)
(***************************************************************************)

\* clean_directory calls made on one instance
MaxRuns == 2

\* the caller calls clean_directory again on the same instance and path:
\* the locals of the method and the logs of the run start afresh, the
\* counters of the instance and the disk stay as the last run left them
Rerun ==
    /\ entry = "api"
    /\ pc = "returned"
    /\ runs < MaxRuns
    /\ pc' = "find"
    /\ result' = "none"
    /\ md_files' = <<>>
    /\ idx' = 1
    /\ success_count' = 0
    /\ call_log' = <<>>
    /\ write_log' = <<>>
    /\ io_failed' = {}
    /\ UNCHANGED <<engineVars, environment, disk, files_processed, files_cleaned,
                   total_changes, exit_status, interrupted, runs, file_calls>>

\* the caller calls clean_escaped_markdown on the instance once, before or
\* after a run
DirectCall ==
    /\ entry = "api"
    /\ pc \in {"find", "returned"}
    /\ calls = 0
    /\ CleanCall

\* the texts of the instance's files and of its direct caller: one clean,
\* one that two rules rewrite
InstanceTexts == {<<"a">>, <<BS, "[", BS>>}

\* a direct caller with a text of its own; the files no run reads hold the
\* empty text
InstanceInit ==
    /\ content \in InstanceTexts
    /\ EngineStart
    /\ BatchStart
    /\ entry = "api"
    /\ \A f \in Files :
           IF f \in Range(find_markdown_files(path_kind, dir_files))
           THEN disk[f] \in InstanceTexts
           ELSE disk[f] = <<>>

\* the calls a caller makes on the instance
InstanceNext == FindFiles \/ CleanFileStep \/ Summary \/ Rerun \/ DirectCall

InstanceSpec == InstanceInit /\ [][InstanceNext]_vars
(***************************************************************************)
(* Properties of the engine.                                               *)
(***************************************************************************)

\* C1: clean_escaped_markdown is idempotent: cleaning the text a call
\* returned gives that same text back.
C1_Idempotent == calls >= 2 => cleaned_content = last_input

\* the characters c (or "" for the end of the text) that stand behind two
\* consecutive backslashes somewhere in s; a digit counts when it starts
\* digits followed by a period
DoubleEscaped(s) ==
    {c \in {"#", "-", "*", "+", "_", ".", ">", "[", "]", "(", ")", BT, "1", ""} :
        \E i \in 1..Len(s) :
            /\ At(s, i) = BS /\ At(s, i + 1) = BS /\ At(s, i + 2) = c
            /\ c \in DigitChars => NumberedBody(s, i + 1) > 0}

\* C2: a double backslash before a character a rule targets (or at the end
\* of the text) is never unescaped: both backslashes are still in front of
\* that character in the text returned.
C2_DoubleBackslashKept ==
    calls = 1 => DoubleEscaped(content) \subseteq DoubleEscaped(cleaned_content)

\* C3: on a text that is empty or on which no classifier signal matches, the
\* engine returns the text itself and a change count of 0, and applies no
\* rule.
C3_NoOpOnCleanInput ==
    (calls >= 1 /\ EscapeCount(escaped_indicators, last_input) = 0)
        => /\ cleaned_content = last_input
           /\ changes_made = 0
           /\ ~rules_applied

\* a text without signal that the period rule would rewrite has been cleaned
C3_Witness ==
    /\ calls >= 1
    /\ EscapeCount(escaped_indicators, last_input) = 0
    /\ re_sub("period", last_input) # last_input
    /\ cleaned_content = last_input

\* from position i on, s is lines of backslash, list marker, space and a
\* non-empty item text without backslash
RECURSIVE ListLinesFrom(_, _)
ListLinesFrom(s, i) ==
    LET n == RunLen(s, i + 3, {c \in Range(s) : c # BS /\ c # NL})
    IN  /\ At(s, i) = BS
        /\ At(s, i + 1) \in {"-", "*", "+"}
        /\ At(s, i + 2) = SP
        /\ n >= 1
        /\ \/ i + 3 + n = Len(s) + 1
           \/ At(s, i + 3 + n) = NL /\ ListLinesFrom(s, i + 4 + n)

IsListForm(s) == ListLinesFrom(s, 1)

IsNotBackslash(c) == c # BS

\* C4: a text whose lines are each backslash, list marker (-, * or +), space
\* and item text comes back with the leading backslash of each line removed
\* and a change count above 0.
C4_ListRoundTrip ==
    (calls = 1 /\ IsListForm(content))
        => /\ cleaned_content = SelectSeq(content, IsNotBackslash)
           /\ changes_made > 0

\* s is backslash, 1 to 6 hashes, one or more spaces and a title without
\* backslash
IsHeaderForm(s) ==
    LET k == RunLen(s, 2, {"#"})
        m == RunLen(s, 2 + k, {SP})
    IN  /\ At(s, 1) = BS
        /\ k >= 1 /\ k <= 6
        /\ m >= 1
        /\ 1 + k + m < Len(s)
        /\ \A j \in (2 + k + m)..Len(s) : s[j] # BS

\* the header with the spaces before the title replaced by one space
NormalizedHeader(s) ==
    LET k == RunLen(s, 2, {"#"})
        m == RunLen(s, 2 + k, {SP})
    IN  SubSeq(s, 2, 1 + k) \o <<SP>> \o SubSeq(s, 2 + k + m, Len(s))

\* C5 as claimed: an escaped header comes back as the hashes, exactly one
\* space and the title, with a change count above 0.
C5_HeaderNormalized ==
    (calls = 1 /\ IsHeaderForm(content))
        => /\ cleaned_content = NormalizedHeader(content)
           /\ changes_made > 0

\* C5 as amended: an escaped header comes back with its backslash removed
\* and everything else, the run of spaces included, as it was, with a
\* change count above 0.
C5_HeaderRoundTrip ==
    (calls = 1 /\ IsHeaderForm(content))
        => /\ cleaned_content = Tail(content)
           /\ changes_made > 0

\* a header of six hashes and more than one space has been cleaned
C5_Witness ==
    /\ calls = 1
    /\ IsHeaderForm(content)
    /\ RunLen(content, 2, {"#"}) = 6
    /\ RunLen(content, 8, {SP}) >= 2
    /\ cleaned_content = Tail(content)

\* C10: the CLI's copy of the engine and the library's return the same text
\* and the same change count for every text.
C10_CliMatchesLibrary ==
    (calls = 1 /\ cli_called)
        => /\ cli_cleaned = cleaned_content
           /\ cli_changes = changes_made

\* both copies have rewritten a text with two rules or more
C10_Witness ==
    /\ calls = 1
    /\ cli_called
    /\ cli_changes >= 2
    /\ cli_cleaned # content

(***************************************************************************)
(* Properties of the batch walker and of the command line.                 *)
(***************************************************************************)

\* C6: a dry run never calls write_file, so every file on disk keeps the
\* content it had before the run.
C6_DryRunNeverWrites == dry_run => (write_log = <<>> /\ disk = disk_before)

\* a dry run over two files has returned after finding a file to clean and
\* after a read failed
C6_Witness ==
    /\ dry_run
    /\ pc = "returned"
    /\ Len(md_files) = 2
    /\ files_cleaned >= 1
    /\ io_failed # {}

\* C7 as claimed: clean_directory returns True if and only if no read and
\* no write of a discovered file failed, also when no file was discovered.
C7_SuccessIffNoIoError ==
    (result # "none" /\ path_kind = "directory")
        => (result = "True" <=> io_failed = {})

\* C7 as amended: clean_directory returns True if and only if at least one
\* file was discovered and no read and no write of a discovered file
\* failed; without discovered files it returns False.
C7_SuccessIffFilesAndNoIoError ==
    result # "none" => (result = "True" <=> (md_files # <<>> /\ io_failed = {}))

\* a run over two files, one of which failed, has returned False
C7_Witness ==
    /\ result = "False"
    /\ Len(md_files) = 2
    /\ Cardinality(io_failed) = 1
    /\ success_count = 1

IsPrefix(a, b) == Len(a) <= Len(b) /\ SubSeq(b, 1, Len(a)) = a

\* C8: a failing file does not stop the batch: unless the user interrupts,
\* clean_file ends up called once on every discovered file, in ascending
\* path order, whatever failed on earlier files; a failure only makes the
\* value returned False.
C8_BatchContinues ==
    /\ [](IsPrefix(call_log, md_files))
    /\ [](\A i \in 1..Len(call_log) : \A j \in 1..Len(call_log) :
              i < j => call_log[i] < call_log[j])
    /\ (pc = "loop") ~> (interrupted \/ (pc = "returned" /\ call_log = md_files))
    /\ []((pc = "returned" /\ md_files # <<>>)
              => (result = "False" <=> io_failed # {}))

\* a run has returned with clean_file called on both files although the
\* first one failed
C8_Witness ==
    /\ pc = "returned"
    /\ ~interrupted
    /\ Len(md_files) = 2
    /\ md_files[1] \in io_failed
    /\ call_log = md_files

\* C9 as claimed: main exits with status 0 exactly when the batch fully
\* succeeded and with status 1 otherwise; no other exit status is possible.
C9_ExitStatusZeroOrOne ==
    (entry = "main" /\ pc = "exited") =>
        /\ exit_status \in {0, 1}
        /\ exit_status = 0 <=> result = "True"

\* C9 as amended: once the arguments are parsed, main exits with status 0
\* exactly when clean_directory returned True and no interruption followed,
\* and with status 1 otherwise (path missing, no markdown file found, a file
\* failed, interruption inside the try block); a usage error exits with
\* status 2 and a request for help with status 0, both before any file is
\* looked at; an interruption is left uncaught only before the try block.
C9_ExitStatusAfterParsing ==
    entry = "main" =>
        /\ (pc = "exited" /\ argv = "ok") =>
               /\ exit_status = (IF result = "True" /\ ~interrupted THEN 0 ELSE 1)
               /\ (path_kind = "missing" \/ md_files = <<>> \/ io_failed # {}
                       \/ interrupted) => exit_status = 1
        /\ (pc = "exited" /\ argv = "usage_error") =>
               exit_status = 2 /\ call_log = <<>>
        /\ (pc = "exited" /\ argv = "help") =>
               exit_status = 0 /\ call_log = <<>>
        /\ pc = "uncaught" => (interrupted /\ result = "none" /\ call_log = <<>>)

\* main has exited with status 0 after a run that wrote a file
C9_Witness ==
    /\ entry = "main"
    /\ pc = "exited"
    /\ exit_status = 0
    /\ result = "True"
    /\ write_log # <<>>

(***************************************************************************)
(* Properties of single rules and of the change count.                     *)
(***************************************************************************)

\* the positions of s that hold a backslash which no backslash precedes and
\* which stands right before a character of P
SingleEscapes(s, P) ==
    {i \in 1..Len(s) : s[i] = BS /\ At(s, i - 1) # BS /\ At(s, i + 1) \in P}

\* the positions of s that hold a backslash right before a character of P
Escapes(s, P) == {i \in 1..Len(s) : s[i] = BS /\ At(s, i + 1) \in P}

\* the punctuation the residual rule is said to cover
Punctuation == {".", ",", ":", ";", "'", "&", "!", "?"}

\* C11 as claimed: when the rules are applied, no single backslash before a
\* period, comma, colon, semicolon, quote, ampersand, exclamation mark or
\* question mark is left in the text returned.
C11_ResidualPunctuation ==
    (calls >= 1 /\ rules_applied)
        => SingleEscapes(cleaned_content, Punctuation) = {}

\* C11 as amended: when the rules are applied, no single backslash before a
\* period is left in the text returned, and every backslash before another
\* punctuation character is kept.
C11_ResidualPeriod ==
    (calls >= 1 /\ rules_applied)
        => /\ SingleEscapes(cleaned_content, {"."}) = {}
           /\ Cardinality(Escapes(cleaned_content, Punctuation \ {"."}))
                  = Cardinality(Escapes(last_input, Punctuation \ {"."}))

\* a text with a single backslash before a period, in the middle of a line,
\* has gone through the rules
C11_Witness ==
    /\ calls = 1
    /\ rules_applied
    /\ \E i \in SingleEscapes(content, {"."}) : i > 1 /\ content[i - 1] \notin SpaceChars
    /\ SingleEscapes(cleaned_content, {"."}) = {}

\* C12: when the rules are applied, every backslash-escaped '>' that is
\* followed by whitespace is unescaped in the text returned, each marker of a
\* nested quote included; stated for the markers at the start of a line or
\* after whitespace, where the blockquote rule is written to act.
C12_BlockquoteUnescaped ==
    (calls >= 1 /\ rules_applied)
        => \A i \in SingleEscapes(cleaned_content, {">"}) :
              ~ /\ At(cleaned_content, i + 2) \in SpaceChars
                /\ (AtLineStart(cleaned_content, i)
                        \/ At(cleaned_content, i - 1) \in SpaceChars)

\* the number of rules of pats, from rule k on, whose application alters the
\* text it is given, the rules being applied in order
RECURSIVE RulesAltering(_, _, _)
RulesAltering(pats, k, text) ==
    IF k > Len(pats) THEN 0
    ELSE LET after == re_sub(pats[k], text)
         IN  (IF after # text THEN 1 ELSE 0) + RulesAltering(pats, k + 1, after)

\* C13: the change count returned is the number of rules of the ordered
\* table whose application altered the text; it is 0 exactly when the text
\* returned equals the input, and it never exceeds the number of rules.
C13_ChangeCount ==
    calls >= 1
        => /\ changes_made =
                  (IF rules_applied THEN RulesAltering(patterns, 1, last_input) ELSE 0)
           /\ (changes_made = 0) <=> (cleaned_content = last_input)
           /\ changes_made <= Len(patterns)

\* several rules have altered one text, and removed more characters than
\* there are rules that fired
C13_Witness ==
    /\ calls = 1
    /\ changes_made >= 2
    /\ Len(content) - Len(cleaned_content) > changes_made

\* C15: cleaning only ever deletes backslashes; every other character of the
\* input, whitespace included, is kept unchanged and in order.
C15_OnlyBackslashesDeleted ==
    calls >= 1
        => SelectSeq(cleaned_content, IsNotBackslash)
               = SelectSeq(last_input, IsNotBackslash)

(***************************************************************************)
(* Properties of the counters of a cleaner instance.                       *)
(***************************************************************************)

\* the files whose content on disk is not what it was before the run
FilesChanged == {f \in Files : disk[f] # disk_before[f]}

\* C14: after a batch run, files_cleaned is the number of files whose
\* content on disk the run changed: a file counts as cleaned only if its
\* cleaned text was written.  Stated for the runs that are no dry run.
C14_CleanedCountsWrittenFiles ==
    (pc = "returned" /\ ~dry_run) => files_cleaned = Cardinality(FilesChanged)

\* a clean_file call that returned False without trying to write: its read
\* failed
ReadFailed ==
    /\ file_calls' = file_calls + 1
    /\ success_count' = success_count
    /\ write_log' = write_log

CountersUnchanged ==
    /\ files_processed' = files_processed
    /\ files_cleaned' = files_cleaned
    /\ total_changes' = total_changes

\* C16: after any sequence of clean_file calls on one instance, over one or
\* several runs, files_cleaned <= files_processed <= number of clean_file
\* calls and files_cleaned <= total_changes; a call whose read fails leaves
\* the three counters unchanged, and a call of clean_escaped_markdown never
\* changes a counter.
C16_CounterOrder ==
    /\ [](/\ files_cleaned <= files_processed
          /\ files_processed <= file_calls
          /\ files_cleaned <= total_changes)
    /\ [][ReadFailed => CountersUnchanged]_vars
    /\ [][calls' # calls => (CountersUnchanged /\ file_calls' = file_calls)]_vars

\* a second run has returned on an instance that was also called directly,
\* after a read failed and after a file was cleaned and another found clean
C16_Witness ==
    /\ runs = 2
    /\ pc = "returned"
    /\ calls = 1
    /\ files_processed < file_calls
    /\ 1 <= files_cleaned
    /\ files_cleaned < files_processed
    /\ files_cleaned < total_changes

====
